---- MODULE Spec2Model ----
(***************************************************************************)
(* Persistent backend of the prunable MMR sum-tree (store/src/sumtree.rs). *)
(*                                                                         *)
(* The three files of the data directory are modelled byte by byte:        *)
(*   dat_file     pmmr_dat.bin     fixed-width HashSum records             *)
(*   rm_file      pmmr_rm_log.bin  encoded u64 positions, in write order   *)
(*   pruned_file  pmmr_pruned.bin  encoded prune list                      *)
(* together with the in-memory state of PMMRBackend.  The collaborators    *)
(* that live in the core crate (VecBackend, PruneList, the ser codec) are  *)
(* modelled from their documented interface.                               *)
(***************************************************************************)
EXTENDS Integers, Sequences, FiniteSets, TLC

VARIABLES
    dat_file,      \* bytes of pmmr_dat.bin as the OS sees them
    mmap,          \* hashsum_file.mmap: NoMmap, or the number of bytes mapped
    rm_file,       \* bytes of pmmr_rm_log.bin
    removed,       \* remove_log.removed
    pruned_file,   \* bytes of pmmr_pruned.bin
    pruned_nodes,  \* pruned_nodes.pruned_nodes
    buffer,        \* buffer.elems: sequence of Option<HashSum>
    buffer_index,  \* buffer_index
    last_pos,      \* history: the highest position the caller has appended
    ever_removed,  \* history: the positions the caller passed to remove
    last           \* history: the last completed call and its outcome

vars == <<dat_file, mmap, rm_file, removed, pruned_file, pruned_nodes,
          buffer, buffer_index, last_pos, ever_removed, last>>

---------------------------------------------------------------------------
(* Bounds of the model and constants of the program *)

MaxPos == 4
MaxBatch == 2

HashLen == 32
SumLen == 8
RM_LOG_MAX_NODES == 10000
PruneBufRecords == 256
ReadBufCapacity == 8000
U64Len == 8

record_len == HashLen + SumLen

\* The max_len arguments check_compact is called with, and the numbers of
\* positions remove is called with.
MaxLens == {0, 1, 2}
RemoveLens == {1, 2}

\* The records the caller appends: HashSum { hash: 32 bytes, sum }.  The
\* backend never looks into a record, so the caller's record for position p
\* is fixed and differs from the record of every other position.
TestElem(p) == [hash |-> [i \in 1..HashLen |-> p], sum |-> p]

---------------------------------------------------------------------------
(* Option values *)

None == <<>>
Some(x) == <<x>>
IsNone(o) == Len(o) = 0
Unwrap(o) == o[1]

NoMmap == -1

---------------------------------------------------------------------------
(* The ser codec: fixed-width big-endian scalars, records without framing *)

RECURSIVE BEBytes(_, _)
BEBytes(n, w) == IF w = 0 THEN <<>> ELSE BEBytes(n \div 256, w - 1) \o <<n % 256>>

RECURSIVE BEValue(_)
BEValue(bytes) ==
    IF Len(bytes) = 0 THEN 0
    ELSE BEValue(SubSeq(bytes, 1, Len(bytes) - 1)) * 256 + bytes[Len(bytes)]

ser_u64(n) == BEBytes(n, U64Len)

ser_vec(hs) == hs.hash \o BEBytes(hs.sum, SumLen)

\* ser::deserialize of one HashSum: an error (None) on a short read.
deserialize(data) ==
    IF Len(data) < record_len THEN None
    ELSE Some([hash |-> SubSeq(data, 1, HashLen),
               sum |-> BEValue(SubSeq(data, HashLen + 1, record_len))])

\* ser::deserialize of a Vec<u64>: scalars until the input runs out.
RECURSIVE deserialize_u64s(_)
deserialize_u64s(buf) ==
    IF Len(buf) < U64Len THEN <<>>
    ELSE <<BEValue(SubSeq(buf, 1, U64Len))>>
         \o deserialize_u64s(SubSeq(buf, U64Len + 1, Len(buf)))

RECURSIVE serialize_u64s(_)
serialize_u64s(v) ==
    IF Len(v) = 0 THEN <<>> ELSE ser_u64(Head(v)) \o serialize_u64s(Tail(v))

---------------------------------------------------------------------------
(* Ordered vectors *)

\* slice::binary_search: found with the index of the match, or not found
\* with the index where the element would be inserted (indices from 0).
RECURSIVE binary_search_from(_, _, _, _)
binary_search_from(s, x, base, lim) ==
    IF lim = 0 THEN [found |-> FALSE, idx |-> base]
    ELSE LET ix == base + (lim \div 2) IN
         IF s[ix + 1] = x THEN [found |-> TRUE, idx |-> ix]
         ELSE IF s[ix + 1] < x
              THEN binary_search_from(s, x, ix + 1, (lim - 1) \div 2)
              ELSE binary_search_from(s, x, base, lim \div 2)

binary_search(s, x) == binary_search_from(s, x, 0, Len(s))

\* Vec::insert(idx, e), idx from 0.
vec_insert(s, idx, e) == SubSeq(s, 1, idx) \o <<e>> \o SubSeq(s, idx + 1, Len(s))

\* Vec::remove(idx), idx from 0.
vec_remove(s, idx) == SubSeq(s, 1, idx) \o SubSeq(s, idx + 2, Len(s))

\* The loop body of read_ordered_vec: binary-insert what is not yet there.
RECURSIVE insert_ordered(_, _)
insert_ordered(ovec, elmts) ==
    IF Len(elmts) = 0 THEN ovec
    ELSE LET r == binary_search(ovec, Head(elmts)) IN
         insert_ordered(IF r.found THEN ovec
                        ELSE vec_insert(ovec, r.idx, Head(elmts)),
                        Tail(elmts))

Min(a, b) == IF a < b THEN a ELSE b

Range(s) == {s[i] : i \in 1..Len(s)}

\* read_ordered_vec: the file is read through a BufReader, one fill_buf at a
\* time; a missing file and an empty file both give the empty vector.
RECURSIVE read_ordered_loop(_, _)
read_ordered_loop(file, ovec) ==
    IF Len(file) = 0 THEN ovec
    ELSE LET buf_len == Min(Len(file), ReadBufCapacity) IN
         read_ordered_loop(SubSeq(file, buf_len + 1, Len(file)),
                           insert_ordered(ovec, deserialize_u64s(SubSeq(file, 1, buf_len))))

read_ordered_vec(file) == read_ordered_loop(file, <<>>)

\* write_vec: the file is created anew and holds the encoded vector.
write_vec(v) == serialize_u64s(v)

---------------------------------------------------------------------------
(* MMR positions (core::pmmr): nodes are numbered from 1 in postorder *)

RECURSIVE Pow2(_)
Pow2(n) == IF n = 0 THEN 1 ELSE 2 * Pow2(n - 1)

RECURSIVE most_significant_pos(_)
most_significant_pos(n) == IF n = 0 THEN 0 ELSE 1 + most_significant_pos(n \div 2)

all_ones(n) == n > 0 /\ n + 1 = Pow2(most_significant_pos(n))

\* Height of the node at position num: jump left until the leftmost branch.
RECURSIVE bintree_postorder_height(_)
bintree_postorder_height(num) ==
    IF num = 0 THEN 0
    ELSE IF all_ones(num) THEN most_significant_pos(num) - 1
    ELSE bintree_postorder_height(num - (Pow2(most_significant_pos(num) - 1) - 1))

\* Parent and sibling of the node at pos.
family(pos) ==
    LET height == bintree_postorder_height(pos)
        sibling_jump == Pow2(height + 1) - 1
    IN IF bintree_postorder_height(pos + 1) > height
       THEN [parent |-> pos + 1, sibling |-> pos - sibling_jump]
       ELSE [parent |-> pos + Pow2(height + 1), sibling |-> pos + sibling_jump]

\* Number of nodes of the subtree whose root is at pos.
subtree_size(pos) == Pow2(bintree_postorder_height(pos) + 1) - 1

---------------------------------------------------------------------------
(* PruneList (core::pmmr): the sorted roots of the pruned subtrees *)

\* Whether walking up from cursor reaches the root next_peak_pos.
RECURSIVE under_peak(_, _)
under_peak(cursor, next_peak_pos) ==
    LET parent == family(cursor).parent IN
    IF next_peak_pos = parent THEN TRUE
    ELSE IF next_peak_pos < parent THEN FALSE
    ELSE under_peak(parent, next_peak_pos)

\* pruned_pos: None when pos is pruned, itself or through a parent in the
\* list; otherwise the index pos would take in the list.
pruned_pos(pl, pos) ==
    LET r == binary_search(pl, pos) IN
    IF r.found THEN None
    ELSE IF Len(pl) > r.idx /\ under_peak(pos, pl[r.idx + 1]) THEN None
    ELSE Some(r.idx)

RECURSIVE sum_subtree_sizes(_, _)
sum_subtree_sizes(pl, n) ==
    IF n = 0 THEN 0 ELSE sum_subtree_sizes(pl, n - 1) + subtree_size(pl[n])

\* get_shift: None when pos is pruned; otherwise the number of nodes of the
\* pruned subtrees that come before pos.
get_shift(pl, pos) ==
    LET idx == pruned_pos(pl, pos) IN
    IF IsNone(idx) THEN None ELSE Some(sum_subtree_sizes(pl, Unwrap(idx)))

\* add: two pruned siblings are replaced by their parent.
RECURSIVE prune_list_add(_, _)
prune_list_add(pl, current) ==
    LET fam == family(current)
        sib == binary_search(pl, fam.sibling)
    IN IF sib.found THEN prune_list_add(vec_remove(pl, sib.idx), fam.parent)
       ELSE LET cur == binary_search(pl, current) IN
            IF cur.found THEN pl ELSE vec_insert(pl, cur.idx, current)

RECURSIVE prune_list_add_all(_, _)
prune_list_add_all(pl, positions) ==
    IF Len(positions) = 0 THEN pl
    ELSE prune_list_add_all(prune_list_add(pl, Head(positions)), Tail(positions))

---------------------------------------------------------------------------
(* VecBackend (core::pmmr): the write buffer, a vector of optional records *)

\* append: the records are pushed at the end of the vector.
vec_backend_append(elems, position, data) ==
    elems \o [i \in 1..Len(data) |-> Some(data[i])]

vec_backend_get(elems, position) == elems[position]

\* remove: the slot of each position is emptied; a position the vector does
\* not hold is ignored.
vec_backend_remove(elems, positions) ==
    [i \in 1..Len(elems) |->
        IF \E j \in 1..Len(positions) : positions[j] = i THEN None ELSE elems[i]]

used_size(elems) == Cardinality({i \in 1..Len(elems) : ~IsNone(elems[i])})

---------------------------------------------------------------------------
(* AppendOnlyFile *)

\* sync: fsync, then a map of the whole file.  A file of length zero cannot
\* be mapped by every build of the mapping library: the call then fails and
\* the previous map stays.
sync_outcomes(file, old) == IF Len(file) > 0 THEN {Len(file)} ELSE {0, old}

\* read: a copy of length bytes at offset of the map; nothing without a map;
\* a panic beyond the map.
aof_read(file, map, offset, length) ==
    IF map = NoMmap THEN [panic |-> FALSE, data |-> <<>>]
    ELSE IF offset + length > map THEN [panic |-> TRUE, data |-> <<>>]
    ELSE [panic |-> FALSE, data |-> SubSeq(file, offset + 1, offset + length)]

\* The while loop of save_prune over the prune offsets of the current span.
\* st = [ok, buf_start, prune_pos, out]; ok is FALSE when a slice panics.
RECURSIVE save_prune_span(_, _, _, _, _, _)
save_prune_span(buf, prune_offs, prune_len, read, len, st) ==
    IF prune_offs[st.prune_pos + 1] >= read /\ prune_offs[st.prune_pos + 1] < read + len
    THEN LET prune_at == prune_offs[st.prune_pos + 1] IN
         IF prune_at # st.buf_start /\ (st.buf_start > prune_at \/ prune_at > Len(buf))
         THEN [st EXCEPT !.ok = FALSE]
         ELSE LET st1 == [st EXCEPT
                            !.out = IF prune_at # st.buf_start
                                    THEN @ \o SubSeq(buf, st.buf_start + 1, prune_at)
                                    ELSE @,
                            !.buf_start = prune_at + prune_len]
              IN IF Len(prune_offs) > st.prune_pos + 1
                 THEN save_prune_span(buf, prune_offs, prune_len, read, len,
                                      [st1 EXCEPT !.prune_pos = @ + 1])
                 ELSE st1
    ELSE st

\* The read loop of save_prune: one buffer of 256 * prune_len bytes at a time.
RECURSIVE save_prune_loop(_, _, _, _, _, _, _)
save_prune_loop(file, prune_offs, prune_len, buf, read, prune_pos, out) ==
    LET len == Min(Len(buf), Len(file) - read) IN
    IF len = 0 THEN [ok |-> TRUE, out |-> out]
    ELSE IF Len(prune_offs) = 0 THEN [ok |-> FALSE, out |-> out]
    ELSE LET buf1 == SubSeq(file, read + 1, read + len) \o SubSeq(buf, len + 1, Len(buf))
             st == save_prune_span(buf1, prune_offs, prune_len, read, len,
                                   [ok |-> TRUE, buf_start |-> 0,
                                    prune_pos |-> prune_pos, out |-> out])
         IN IF ~st.ok \/ st.buf_start > len THEN [ok |-> FALSE, out |-> st.out]
            ELSE save_prune_loop(file, prune_offs, prune_len, buf1, read + len,
                                 st.prune_pos,
                                 st.out \o SubSeq(buf1, st.buf_start + 1, len))

\* save_prune: the content of the target file, or a panic (ok = FALSE).
save_prune(file, prune_offs, prune_len) ==
    save_prune_loop(file, prune_offs, prune_len,
                    [i \in 1..(prune_len * PruneBufRecords) |-> 0], 0, 0, <<>>)

---------------------------------------------------------------------------
(* RemoveLog *)

\* Variant of append that pushes a new position at the end of removed
\* instead of inserting it at the index the search gave.
RECURSIVE remove_log_append_push(_, _)
remove_log_append_push(st, elmts) ==
    IF Len(elmts) = 0 THEN st
    ELSE LET r == binary_search(st.removed, Head(elmts)) IN
         remove_log_append_push(
             IF r.found THEN st
             ELSE [removed |-> st.removed \o <<Head(elmts)>>,
                   file |-> st.file \o ser_u64(Head(elmts))],
             Tail(elmts))

\* Variant of append that writes a position to the file before it looks
\* whether removed holds it.
RECURSIVE remove_log_append_write_first(_, _)
remove_log_append_write_first(st, elmts) ==
    IF Len(elmts) = 0 THEN st
    ELSE LET r == binary_search(st.removed, Head(elmts)) IN
         remove_log_append_write_first(
             [removed |-> IF r.found THEN st.removed
                          ELSE vec_insert(st.removed, r.idx, Head(elmts)),
              file |-> st.file \o ser_u64(Head(elmts))],
             Tail(elmts))

\* Variant of append that writes to the file only a position that goes to
\* the end of removed.
RECURSIVE remove_log_append_tail_only(_, _)
remove_log_append_tail_only(st, elmts) ==
    IF Len(elmts) = 0 THEN st
    ELSE LET r == binary_search(st.removed, Head(elmts)) IN
         remove_log_append_tail_only(
             IF r.found THEN st
             ELSE [removed |-> vec_insert(st.removed, r.idx, Head(elmts)),
                   file |-> IF r.idx = Len(st.removed)
                            THEN st.file \o ser_u64(Head(elmts))
                            ELSE st.file],
             Tail(elmts))

\* append: each position not yet in removed is written to the file and
\* inserted in order.  st = [removed, file].
RECURSIVE remove_log_append(_, _)
remove_log_append(st, elmts) ==
    IF Len(elmts) = 0 THEN st
    ELSE LET r == binary_search(st.removed, Head(elmts)) IN
         remove_log_append(
             IF r.found THEN st
             ELSE [removed |-> vec_insert(st.removed, r.idx, Head(elmts)),
                   file |-> st.file \o ser_u64(Head(elmts))],
             Tail(elmts))

includes(rm, elmt) == binary_search(rm, elmt).found

---------------------------------------------------------------------------
(* PMMRBackend *)

\* The result of get: a record, none, or a panic of the read.
GetSome(hs) == [tag |-> "some", val |-> Some(hs)]
GetNone == [tag |-> "none", val |-> None]
GetPanic == [tag |-> "panic", val |-> None]
GetOption(o) == IF IsNone(o) THEN GetNone ELSE GetSome(Unwrap(o))

\* The build profiles: debug checks integer overflow and panics on it, release
\* wraps around in 64 bits.
Builds == {"debug", "release"}

\* get on the backend state given as a record of its fields.  When the shift
\* is larger than pos, pos - shift overflows: debug panics at the subtraction;
\* release wraps to an offset beyond every file, where read returns nothing
\* without a map (the decode then fails and get returns none) and panics at
\* the slice of the map otherwise.
backend_get(build, b, position) ==
    LET pos_sz == position IN
    IF pos_sz - 1 >= b.buffer_index /\ pos_sz - 1 < b.buffer_index + Len(b.buffer)
    THEN GetOption(vec_backend_get(b.buffer, pos_sz - b.buffer_index))
    ELSE IF includes(b.removed, position) THEN GetNone
    ELSE LET shift == get_shift(b.pruned_nodes, position) IN
         IF IsNone(shift) THEN GetNone
         ELSE LET pos == position - 1
                  wraps == pos < Unwrap(shift)
                  file_offset == (pos - Unwrap(shift)) * record_len
                  data == IF wraps
                          THEN [panic |-> b.mmap # NoMmap, data |-> <<>>]
                          ELSE aof_read(b.dat_file, b.mmap, file_offset, record_len)
              IN IF (wraps /\ build = "debug") \/ data.panic THEN GetPanic
                 ELSE GetOption(deserialize(data.data))

Backend == [dat_file |-> dat_file, mmap |-> mmap, removed |-> removed,
            pruned_nodes |-> pruned_nodes, buffer |-> buffer,
            buffer_index |-> buffer_index]

get(build, position) == backend_get(build, Backend, position)

\* The history of a completed call: its name, its outcome and, for remove,
\* the number of its positions that no earlier remove had named.
Called(op, res) == [op |-> op, res |-> res, fresh |-> 0]

\* PMMRBackend::new on an empty data directory.
Init ==
    /\ dat_file = <<>>
    /\ mmap = NoMmap
    /\ rm_file = <<>>
    /\ removed = <<>>
    /\ pruned_file = <<>>
    /\ pruned_nodes = <<>>
    /\ buffer = <<>>
    /\ buffer_index = 0
    /\ last_pos = 0
    /\ ever_removed = {}
    /\ last = Called("new", "ok")

\* The backend is dropped and PMMRBackend::new opens the same directory.
new ==
    /\ buffer_index' = Len(dat_file) \div record_len
    /\ removed' = read_ordered_vec(rm_file)
    /\ pruned_nodes' = read_ordered_vec(pruned_file)
    /\ buffer' = <<>>
    /\ mmap' = NoMmap
    /\ last' = Called("new", "ok")
    /\ UNCHANGED <<dat_file, rm_file, pruned_file, last_pos, ever_removed>>

\* The file bytes of a batch of records, in order.
RECURSIVE ser_all(_)
ser_all(data) == IF Len(data) = 0 THEN <<>> ELSE ser_vec(Head(data)) \o ser_all(Tail(data))

\* append(position, data): the caller appends n records at its write frontier.
append(n) ==
    LET position == last_pos + 1
        data == [i \in 1..n |-> TestElem(position + i - 1)]
    IN
    /\ last_pos + n <= MaxPos
    /\ buffer' = vec_backend_append(buffer, position - buffer_index, data)
    /\ dat_file' = dat_file \o ser_all(data)
    /\ last_pos' = last_pos + n
    /\ last' = Called("append", "ok")
    /\ UNCHANGED <<mmap, rm_file, removed, pruned_file, pruned_nodes,
                   buffer_index, ever_removed>>

\* remove(positions)
remove(positions) ==
    LET rl == remove_log_append([removed |-> removed, file |-> rm_file], positions) IN
    /\ buffer' = IF used_size(buffer) > 0
                 THEN vec_backend_remove(buffer, positions)
                 ELSE buffer
    /\ removed' = rl.removed
    /\ rm_file' = rl.file
    /\ ever_removed' = ever_removed \cup Range(positions)
    /\ last' = LET fresh == Cardinality(Range(positions) \ ever_removed) IN
               [op |-> "remove",
                res |-> IF fresh = Len(positions) THEN "ok" ELSE "skipped",
                fresh |-> fresh]
    /\ UNCHANGED <<dat_file, mmap, pruned_file, pruned_nodes, buffer_index, last_pos>>

\* sync()
sync ==
    /\ buffer_index' = buffer_index + Len(buffer)
    /\ buffer' = <<>>
    /\ \E m \in sync_outcomes(dat_file, mmap) : mmap' = m
    /\ last' = Called("sync", "ok")
    /\ UNCHANGED <<dat_file, rm_file, removed, pruned_file, pruned_nodes,
                   last_pos, ever_removed>>

\* Whether check_compact goes past its length test.
over_threshold(rm_len, max_len) ==
    (max_len > 0 /\ rm_len > max_len) \/ (max_len = 0 /\ rm_len > RM_LOG_MAX_NODES)

\* Variant of step 0 that looks at the first position of the remove log only.
already_pruned_first(pl, rm) == Len(rm) > 0 /\ IsNone(pruned_pos(pl, rm[1]))

\* Variant of step 0 that looks at the last position of the remove log only.
already_pruned_last(pl, rm) == Len(rm) > 0 /\ IsNone(pruned_pos(pl, rm[Len(rm)]))

\* Step 0 of check_compact: some position of the remove log is pruned already.
already_pruned(pl, rm) == \E i \in 1..Len(rm) : IsNone(pruned_pos(pl, rm[i]))

\* Variant of to_rm that takes the MMR position for the index of the record.
to_rm_from_one(pl, rm) ==
    [i \in 1..Len(rm) |-> (rm[i] - Unwrap(get_shift(pl, rm[i]))) * record_len]

\* Step 1 of check_compact: the file offsets of the records of the remove
\* log, in the order of the log.
to_rm(pl, rm) ==
    [i \in 1..Len(rm) |-> (rm[i] - 1 - Unwrap(get_shift(pl, rm[i]))) * record_len]

\* check_compact(max_len).  The outcome is "noop" (under the threshold),
\* "abort" (step 0), "panic" (an unwrap, a subtraction or a slice fails) or
\* "compact".
check_compact(max_len) ==
    LET shifts == [i \in 1..Len(removed) |-> get_shift(pruned_nodes, removed[i])]
        unwraps == \A i \in 1..Len(removed) :
                       ~IsNone(shifts[i]) /\ removed[i] - 1 >= Unwrap(shifts[i])
        copy == save_prune(dat_file, to_rm(pruned_nodes, removed), record_len)
        pl == prune_list_add_all(pruned_nodes, removed)
        outcome == IF ~over_threshold(Len(removed), max_len) THEN "noop"
                   ELSE IF already_pruned(pruned_nodes, removed) THEN "abort"
                   ELSE IF ~unwraps THEN "panic"
                   ELSE IF ~copy.ok THEN "panic"
                   ELSE "compact"
    IN /\ last' = Called("check_compact", outcome)
       /\ IF outcome = "compact"
          THEN /\ dat_file' = copy.out
               /\ pruned_nodes' = pl
               /\ pruned_file' = write_vec(pl)
               /\ \E m \in sync_outcomes(copy.out, NoMmap) : mmap' = m
          ELSE UNCHANGED <<dat_file, pruned_nodes, pruned_file, mmap>>
       /\ UNCHANGED <<rm_file, removed, buffer, buffer_index, last_pos, ever_removed>>

\* The inputs of the calls.
RemoveArgs == UNION {[1..n -> 1..last_pos] : n \in RemoveLens}

Next ==
    \/ \E n \in 1..MaxBatch : append(n)
    \/ \E positions \in RemoveArgs : remove(positions)
    \/ sync
    \/ \E max_len \in MaxLens : check_compact(max_len)
    \/ new

Spec == Init /\ [][Next]_vars

---------------------------------------------------------------------------
(* check_compact with an I/O error in step 2 or 3 *)

\* The steps of check_compact whose I/O error is modelled: the copy of the
\* data file (save_prune), the write of the prune list (write_vec), the
\* rename of the compact copy (rename) and the sync of the reopened file
\* (sync).  An error of the reopening itself is left out: the backend would
\* keep the handle and the map of the file the rename has replaced.
FailSteps == {"save_prune", "write_vec", "rename", "sync"}

\* What a write_vec of bytes that returns an error leaves of a file that held
\* old: old when File::create fails, and otherwise the bytes written before
\* the error, any proper prefix of bytes.
write_vec_error(old, bytes) ==
    {old} \cup {SubSeq(bytes, 1, k) : k \in 0..(Len(bytes) - 1)}

\* check_compact(max_len) that has passed step 0 and returns the error of
\* step.  Nothing is changed when save_prune fails.  From write_vec on the
\* prune list in memory holds the positions of the remove log; the prune-list
\* file is written in part when write_vec fails and in full after it; the
\* data file and its map are the ones from before up to the rename, and the
\* compact copy without a map when the last sync fails.
check_compact_io_error(max_len, step) ==
    LET unwraps == \A i \in 1..Len(removed) :
                       LET shift == get_shift(pruned_nodes, removed[i]) IN
                       ~IsNone(shift) /\ removed[i] - 1 >= Unwrap(shift)
        copy == save_prune(dat_file, to_rm(pruned_nodes, removed), record_len)
        pl == prune_list_add_all(pruned_nodes, removed)
    IN /\ over_threshold(Len(removed), max_len)
       /\ ~already_pruned(pruned_nodes, removed)
       /\ unwraps
       /\ IF step = "save_prune"
          THEN UNCHANGED <<pruned_nodes, pruned_file, dat_file, mmap>>
          ELSE /\ copy.ok
               /\ pruned_nodes' = pl
               /\ IF step = "write_vec"
                  THEN \E written \in write_vec_error(pruned_file, write_vec(pl)) :
                           pruned_file' = written
                  ELSE pruned_file' = write_vec(pl)
               /\ IF step = "sync"
                  THEN dat_file' = copy.out /\ mmap' = NoMmap
                  ELSE UNCHANGED <<dat_file, mmap>>
       /\ last' = Called("check_compact", step)
       /\ UNCHANGED <<rm_file, removed, buffer, buffer_index, last_pos, ever_removed>>

FaultNext ==
    \/ \E n \in 1..MaxBatch : append(n)
    \/ \E positions \in RemoveArgs : remove(positions)
    \/ sync
    \/ \E max_len \in MaxLens : check_compact(max_len)
    \/ \E max_len \in MaxLens, step \in FailSteps : check_compact_io_error(max_len, step)
    \/ new

FaultSpec == Init /\ [][FaultNext]_vars

---------------------------------------------------------------------------
(* AppendOnlyFile::save_prune on its own: a file is copied to a target with *)
(* the ranges at prune_offs left out.  dat_file is the file copied; the     *)
(* call, its arguments and the target file it wrote are kept in last.       *)

\* The prune_len arguments, and the files: n units of len bytes each.
PruneLens == {1, 2, record_len}
FileShapes == {<<n, len>> \in {1, 2, 3, 255, 256, 257, 258, 513} \X PruneLens :
                  len = record_len => n \in {2, 257, 258}}

\* The content of a file of n bytes; no two spans of the copy buffer agree.
TestFile(n) == [i \in 1..n |-> (i * 31) % 251]

\* The units of the file whose offsets are drawn for prune_offs.
PruneUnits == {0, 1, 2, 255, 256, 257, 512}

\* The ascending sequences of one to three members of a set of offsets.
AscendingSeqs(offs) ==
    {s \in UNION {[1..n -> offs] : n \in 1..3} :
        \A i \in 1..(Len(s) - 1) : s[i] < s[i + 1]}

\* The prune_offs arguments for a file of size bytes: strictly ascending
\* offsets, aligned on prune_len, of ranges that lie inside the file.
PruneOffsArgs(size, prune_len) ==
    AscendingSeqs({u * prune_len : u \in {v \in PruneUnits : (v + 1) * prune_len <= size}})

SavePruneInit ==
    /\ \E shape \in FileShapes : dat_file = TestFile(shape[1] * shape[2])
    /\ mmap = NoMmap
    /\ rm_file = <<>>
    /\ removed = <<>>
    /\ pruned_file = <<>>
    /\ pruned_nodes = <<>>
    /\ buffer = <<>>
    /\ buffer_index = 0
    /\ last_pos = 0
    /\ ever_removed = {}
    /\ last = Called("open", "ok")

\* save_prune(target, prune_offs, prune_len) on the file.
save_prune_call(prune_offs, prune_len) ==
    LET copy == save_prune(dat_file, prune_offs, prune_len) IN
    /\ last' = [op |-> "save_prune",
                res |-> IF copy.ok THEN "ok" ELSE "panic",
                fresh |-> 0,
                prune_offs |-> prune_offs,
                prune_len |-> prune_len,
                target |-> copy.out]
    /\ UNCHANGED <<dat_file, mmap, rm_file, removed, pruned_file, pruned_nodes,
                   buffer, buffer_index, last_pos, ever_removed>>

SavePruneNext ==
    \E prune_len \in PruneLens :
        \E prune_offs \in PruneOffsArgs(Len(dat_file), prune_len) :
            save_prune_call(prune_offs, prune_len)

SavePruneSpec == SavePruneInit /\ [][SavePruneNext]_vars

---------------------------------------------------------------------------
(* Properties *)

Positions == 1..last_pos

\* The threshold check_compact(max_len) compares the remove log with.
Threshold(max_len) == IF max_len > 0 THEN max_len ELSE RM_LOG_MAX_NODES

\* p lies in the subtree of one of the roots of the prune list.
InPrunedSubtree(pl, p) ==
    \E i \in 1..Len(pl) : pl[i] - subtree_size(pl[i]) < p /\ p <= pl[i]

\* The states a store reaches by append, sync and remove alone: no compaction
\* has written the prune list, and the data file is mapped once something
\* has been synced.
AppendSyncRemoveOnly == pruned_file = <<>> /\ (mmap # NoMmap \/ buffer_index = 0)

Compacted == Len(pruned_file) > 0

StrictlyAscending(s) == \A i \in 1..(Len(s) - 1) : s[i] < s[i + 1]

\* C1: after appends at the write frontier, syncs and removes of other
\* positions, get(p) returns the record appended at p for every appended
\* position p that was never passed to remove.
C1_AppendGetRoundTrip ==
    AppendSyncRemoveOnly =>
        \A build \in Builds, p \in Positions :
            p \notin ever_removed => get(build, p) = GetSome(TestElem(p))

\* C2: once a position was passed to remove, get returns none for it in
\* every later state.
C2_RemoveVisibility == \A build \in Builds, p \in ever_removed : get(build, p) = GetNone

\* A position that is appended, not in the remove log and not in a pruned subtree.
Live(b, p) == /\ p \in Positions
              /\ ~includes(b.removed, p)
              /\ ~InPrunedSubtree(b.pruned_nodes, p)

\* C3: a check_compact that compacts leaves get(p) as it was for every
\* position p that is live before and after it.
C3_PositionalStability ==
    [][last'.res = "compact" =>
         \A build \in Builds, p \in Positions :
             Live(Backend, p) /\ Live(Backend', p) => get(build, p)' = get(build, p)]_vars

\* C4: at the end of a check_compact that compacted, the remove log is empty
\* and includes no position.
C4_RemoveLogCleared ==
    last.res = "compact" =>
        Len(removed) = 0 /\ \A p \in 1..MaxPos : ~includes(removed, p)

\* C5: check_compact(max_len) leaves the data file, the prune list and the
\* remove log unchanged if and only if the remove log is no longer than the
\* threshold (max_len, or RM_LOG_MAX_NODES for max_len = 0).
C5_CompactionThreshold ==
    [][\A max_len \in MaxLens :
          check_compact(max_len) =>
              (UNCHANGED <<dat_file, pruned_nodes, pruned_file, removed, rm_file>>
                  <=> Len(removed) <= Threshold(max_len))]_vars

\* C6: right after the store of a compacted directory is opened again, get
\* returns the appended record for every position never removed and none for
\* every removed position.
C6_RecoveryAfterRestart ==
    (last.op = "new" /\ Compacted) =>
        \A build \in Builds, p \in Positions :
            get(build, p) = IF p \in ever_removed THEN GetNone ELSE GetSome(TestElem(p))

\* C7: buffer_index + buffer.len() is the highest position ever appended.
C7_BufferFrontier == buffer_index + Len(buffer) = last_pos

\* C8: removed is strictly ascending, and includes(p) holds exactly for the
\* positions passed to remove, before and after the log is opened again.
C8_RemoveLogIsSet ==
    /\ StrictlyAscending(removed)
    /\ \A p \in 1..MaxPos : includes(removed, p) <=> p \in ever_removed

\* C8 witness: the log was loaded from a file written out of order, and a
\* later remove met a position it already held.
C8_Witness ==
    /\ Len(removed) >= 2
    /\ deserialize_u64s(rm_file) # removed
    /\ mmap = NoMmap /\ buffer_index > 0
    /\ last.op = "remove" /\ last.res = "skipped"

\* C9: a remove writes one encoded position to the log file for each of its
\* positions that no earlier remove had named, and nothing for the others; a
\* remove of positions named before leaves removed and the file unchanged.
C9_IdempotentRemoval ==
    [][last'.op = "remove" =>
          /\ Len(rm_file') = Len(rm_file) + U64Len * last'.fresh
          /\ Len(removed') = Len(removed) + last'.fresh
          /\ last'.fresh = 0 => removed' = removed /\ rm_file' = rm_file]_vars

\* C9 witness: a remove that skipped a position has completed and the log
\* holds positions.
C9_Witness == last.op = "remove" /\ last.fresh = 0 /\ Len(rm_file) > 0

\* C10: a check_compact over the threshold with a remove-log position that is
\* pruned already returns at step 0 and changes nothing.
C10_AbortWithoutSideEffect ==
    [][last'.op = "check_compact" =>
          \A max_len \in MaxLens :
              (/\ Len(removed) > Threshold(max_len)
               /\ \E i \in 1..Len(removed) : InPrunedSubtree(pruned_nodes, removed[i])
               /\ check_compact(max_len))
              => /\ last'.res = "abort"
                 /\ UNCHANGED <<dat_file, mmap, rm_file, removed, pruned_file,
                                pruned_nodes, buffer, buffer_index>>]_vars

\* C10 witness: a check_compact has returned at step 0 while the remove log
\* also holds a position that is not pruned.
C10_Witness ==
    /\ last = Called("check_compact", "abort")
    /\ \E i \in 1..Len(removed) : ~InPrunedSubtree(pruned_nodes, removed[i])

\* C11: between completed calls no position is both in the remove log and
\* pruned according to the prune list.
C11_LogAndPruneListDisjoint ==
    \A i \in 1..Len(removed) :
        /\ ~InPrunedSubtree(pruned_nodes, removed[i])
        /\ ~IsNone(pruned_pos(pruned_nodes, removed[i]))

\* The positions of the remove log whose record is in the data file.
InFile == {i \in 1..Len(removed) : removed[i] * record_len <= Len(dat_file)}

\* C12: the size of the data file is a multiple of record_len, and a
\* check_compact that compacts shrinks the file by record_len for each
\* position of the remove log whose record was in the file.
C12_FileSize ==
    /\ [](Len(dat_file) % record_len = 0)
    /\ [][last'.res = "compact" =>
             Len(dat_file') = Len(dat_file) - record_len * Cardinality(InFile)]_vars

\* C12 witness: a compaction has dropped two records and left others.
C12_Witness ==
    /\ last.res = "compact"
    /\ Len(removed) >= 2
    /\ Len(dat_file) = (last_pos - Len(removed)) * record_len
    /\ Len(dat_file) > 0

\* The file without the ranges [o, o + prune_len) of the offsets o.
RECURSIVE CutRanges(_, _, _)
CutRanges(file, prune_offs, prune_len) ==
    IF Len(prune_offs) = 0 THEN file
    ELSE LET o == prune_offs[Len(prune_offs)] IN
         CutRanges(SubSeq(file, 1, o) \o SubSeq(file, o + prune_len + 1, Len(file)),
                   SubSeq(prune_offs, 1, Len(prune_offs) - 1), prune_len)

\* The offsets are strictly ascending, aligned on prune_len and inside the file.
PruneOffsOk(file, prune_offs, prune_len) ==
    /\ Len(prune_offs) > 0
    /\ StrictlyAscending(prune_offs)
    /\ \A i \in 1..Len(prune_offs) :
           prune_offs[i] % prune_len = 0 /\ prune_offs[i] + prune_len <= Len(file)

\* C13: for a non-empty, strictly ascending list of aligned offsets inside
\* the file, save_prune writes to the target the file without the ranges
\* [o, o + prune_len), whatever the length of the file.
C13_SavePrune ==
    (last.op = "save_prune" /\ PruneOffsOk(dat_file, last.prune_offs, last.prune_len))
        => /\ last.res = "ok"
           /\ last.target = CutRanges(dat_file, last.prune_offs, last.prune_len)

\* C14: remove(positions) leaves get(q) as it was for every appended
\* position q that is not among positions.
C14_RemoveFrame ==
    [][last'.op = "remove" =>
          \A positions \in RemoveArgs :
              remove(positions) =>
                  \A build \in Builds, q \in Positions \ Range(positions) :
                      get(build, q)' = get(build, q)]_vars

\* The record of position p in the data file at the offset a prune list gives.
RecordOnDisk(file, pl, p) ==
    LET shift == get_shift(pl, p) IN
    IF IsNone(shift) \/ p - 1 < Unwrap(shift) THEN GetNone
    ELSE GetOption(deserialize(SubSeq(file, (p - 1 - Unwrap(shift)) * record_len + 1,
                                      (p - Unwrap(shift)) * record_len)))

\* C15: after a check_compact that failed at the write of the prune list or
\* at the rename, every position that is live before and after the call
\* resolves to its own record, through get as before the call and through
\* the prune list on disk.
C15_FailedCompactionKeepsRecords ==
    [][(last'.op = "check_compact" /\ last'.res \in {"write_vec", "rename"}) =>
          \A build \in Builds, p \in Positions :
              (Live(Backend, p) /\ Live(Backend', p)) =>
                  /\ get(build, p)' = get(build, p)
                  /\ RecordOnDisk(dat_file', read_ordered_vec(pruned_file'), p)
                         = GetSome(TestElem(p))]_vars

\* The test of get that sends position p to the write buffer.
InBuffer(b, p) == p - 1 >= b.buffer_index /\ p - 1 < b.buffer_index + Len(b.buffer)

\* C16: get answers from the write buffer for every position of an append
\* from the moment the append returns, and an append, a remove or a
\* check_compact leaves it so; only a sync or a reopening ends it.
C16_BufferShields ==
    [][/\ last'.op = "append" =>
              \A p \in (last_pos + 1)..last_pos' : InBuffer(Backend', p)
       /\ last'.op \in {"append", "remove", "check_compact"} =>
              \A p \in Positions : InBuffer(Backend, p) => InBuffer(Backend', p)]_vars

\* C17: the positions encoded in the remove-log file are, as a set, the
\* positions of removed, and RemoveLog::open on the file yields removed.
C17_RemoveLogDurable ==
    /\ Range(deserialize_u64s(rm_file)) = Range(removed)
    /\ read_ordered_vec(rm_file) = removed

\* C17 witness: a remove has returned Ok and the file holds the positions of
\* the log in another order than removed.
C17_Witness ==
    /\ last.op = "remove" /\ last.res = "ok"
    /\ Len(removed) >= 3
    /\ deserialize_u64s(rm_file) # removed

\* C18: when check_compact goes past step 0, get_shift is defined for every
\* position of the remove log, and the offsets handed to save_prune are
\* strictly ascending, multiples of record_len, and a record apart at least.
C18_PruneOffsets ==
    [][(last'.op = "check_compact" /\ last'.res \in {"compact", "panic"}) =>
          /\ \A i \in 1..Len(removed) :
                 LET shift == get_shift(pruned_nodes, removed[i]) IN
                 ~IsNone(shift) /\ Unwrap(shift) <= removed[i] - 1
          /\ LET offs == to_rm(pruned_nodes, removed) IN
             /\ StrictlyAscending(offs)
             /\ \A i \in 1..Len(offs) : offs[i] >= 0 /\ offs[i] % record_len = 0
             /\ \A i \in 1..(Len(offs) - 1) : offs[i] + record_len <= offs[i + 1]]_vars

\* C18 witness: a check_compact has rewritten the data file for a remove log
\* of three positions loaded from a file written out of order.
C18_Witness ==
    /\ last = Called("check_compact", "compact")
    /\ Len(removed) >= 3
    /\ deserialize_u64s(rm_file) # removed

====
